---- MODULE Spec2Model ----
(***************************************************************************)
(* A model of the DoH rule-set generator: the markdown table parser        *)
(* (src/src/parser.py), the GeoIP classifier (src/src/classifier.py), the  *)
(* rule-file generator (src/src/generator.py), the geosite encoder         *)
(* (src/src/geosite_converter.py) and the pipeline of src/main.py.         *)
(***************************************************************************)
EXTENDS Integers, Sequences, FiniteSets, TLC

\* ------------------------------------------------------------------ bounds
\* most URLs in one classifier input, all providers together
MaxTotalUrls == 4
\* most lines of a parsed text
MaxLines == 4
\* most domains of an encoded category
MaxDomains == 2
\* the low halves 0..MaxLow are among the integers given to the varint writer
MaxLow == 2
\* most calls of classify on one classifier
MaxCalls == 2

\* ------------------------------------------------------- program constants
\* config.py: CHINA_THRESHOLD = 0.5, kept as the exact fraction 1/2
CHINA_THRESHOLD_NUM == 1
CHINA_THRESHOLD_DEN == 2
MAX_URLS_PER_PROVIDER == 3
GEOIP_RETRY == 5
ENABLE_GEOIP == TRUE
GEOIP_PROVIDER == "ip-api"
CHINA_REGIONS == {"CN"}

\* Python's None
None == "None"
\* no call of _query_geoip_api has just returned
NoCall == "-"

\* --------------------------------------------- Python dict, insertion-ordered
\* a dict is a sequence of [k, v] entries with pairwise different keys
Keys(m) == {m[i].k : i \in DOMAIN m}
Has(m, key) == key \in Keys(m)
Get(m, key) == m[CHOOSE i \in DOMAIN m : m[i].k = key].v
\* m[key] = val: a new key goes last, an old key keeps its place
Put(m, key, val) ==
  IF Has(m, key)
  THEN [i \in DOMAIN m |-> IF m[i].k = key THEN [k |-> key, v |-> val] ELSE m[i]]
  ELSE Append(m, [k |-> key, v |-> val])

\* urls[:n]
Take(s, n) == SubSeq(s, 1, IF Len(s) < n THEN Len(s) ELSE n)

\* --------------------------------------------------------- Python str
SetMin(S) == CHOOSE x \in S : \A y \in S : x <= y
SetMax(S) == CHOOSE x \in S : \A y \in S : x >= y
\* s[i-1], as a string of one character
Char(s, i) == SubSeq(s, i, i)
\* s.startswith(p)
StartsWith(s, p) == Len(p) <= Len(s) /\ SubSeq(s, 1, Len(p)) = p
\* s.find(p, from) counted from 1; 0 when p is not in s[from:]
Find(s, p, from) ==
  LET hits == {i \in from..(Len(s) - Len(p) + 1) : SubSeq(s, i, i + Len(p) - 1) = p}
  IN IF hits = {} THEN 0 ELSE SetMin(hits)
\* p in s
Contains(s, p) == Find(s, p, 1) # 0
Whitespace == {" ", "\t", "\n", "\r"}
\* s.strip()
Strip(s) ==
  LET keep == {i \in 1..Len(s) : Char(s, i) \notin Whitespace}
  IN IF keep = {} THEN "" ELSE SubSeq(s, SetMin(keep), SetMax(keep))
\* s.split(sep), sep one character
RECURSIVE Split(_, _)
Split(s, sep) ==
  LET i == Find(s, sep, 1)
  IN IF i = 0 THEN <<s>>
     ELSE <<SubSeq(s, 1, i - 1)>> \o Split(SubSeq(s, i + 1, Len(s)), sep)
\* sep.join(parts)
RECURSIVE Join(_, _)
Join(parts, sep) ==
  IF parts = <<>> THEN ""
  ELSE IF Len(parts) = 1 THEN parts[1]
  ELSE parts[1] \o sep \o Join(Tail(parts), sep)

\* ord(c): the printable ASCII characters from 32 (space) to 126 (tilde),
\* without the double quote (34), the backslash (92) and the grave accent (96)
Ascii32 == " !"
Ascii35 == "#$%&'()*+,-./0123456789:;<=>?@ABCDEFGHIJKLMNOPQRSTUVWXYZ["
Ascii93 == "]^_"
Ascii97 == "abcdefghijklmnopqrstuvwxyz{|}~"
OrdTable ==
  [c \in {Char(Ascii32, i) : i \in 1..Len(Ascii32)}
           \cup {Char(Ascii35, i) : i \in 1..Len(Ascii35)}
           \cup {Char(Ascii93, i) : i \in 1..Len(Ascii93)}
           \cup {Char(Ascii97, i) : i \in 1..Len(Ascii97)} |->
     IF Contains(Ascii32, c) THEN 31 + Find(Ascii32, c, 1)
     ELSE IF Contains(Ascii35, c) THEN 34 + Find(Ascii35, c, 1)
     ELSE IF Contains(Ascii93, c) THEN 92 + Find(Ascii93, c, 1)
     ELSE 96 + Find(Ascii97, c, 1)]
Ord(c) == OrdTable[c]
\* str.lower() of one character
LowerChar(c) == IF c \in DOMAIN OrdTable /\ Ord(c) >= 65 /\ Ord(c) <= 90 THEN Char(Ascii97, Ord(c) + 32 - 96) ELSE c
RECURSIVE Lower(_)
Lower(s) == IF s = "" THEN "" ELSE LowerChar(Char(s, 1)) \o Lower(Tail(s))

\* x < y of two str: by code point, a proper prefix first
RECURSIVE StrLess(_, _)
StrLess(x, y) ==
  IF y = "" THEN FALSE
  ELSE IF x = "" THEN TRUE
  ELSE IF Char(x, 1) = Char(y, 1) THEN StrLess(Tail(x), Tail(y))
  ELSE Ord(Char(x, 1)) < Ord(Char(y, 1))
\* sorted(xs) of a list of strings
Sorted(xs) == SortSeq(xs, StrLess)

\* ------------------------------------------------------------------- URLs
\* urllib.parse.urlparse(url): the netloc is what follows "scheme://" up to the
\* first of "/", "?", "#"; a netloc with one square bracket and not the other
\* raises ValueError ("Invalid IPv6 URL")
urlparse(url) ==
  LET c == Find(url, ":", 1)
      rest == SubSeq(url, c + 3, Len(url))
      ends == {i \in 1..Len(rest) : Char(rest, i) \in {"/", "?", "#"}}
      netloc == IF ends = {} THEN rest ELSE SubSeq(rest, 1, SetMin(ends) - 1)
  IN IF c = 0 \/ SubSeq(url, c + 1, c + 2) # "//"
     THEN [raises |-> FALSE, netloc |-> ""]
     ELSE [raises |-> Contains(netloc, "[") # Contains(netloc, "]"), netloc |-> netloc]

\* the URLs of the classifier inputs: two with a host, one urlparse rejects
ClassifyUrls ==
  {"https://d1.example/dns-query", "https://d2.example/dns-query",
   "https://[d3/dns-query"}

\* urlparse of these URLs, computed once
UrlParsed == [url \in ClassifyUrls |-> urlparse(url)]
Parsed(url) == IF url \in DOMAIN UrlParsed THEN UrlParsed[url] ELSE urlparse(url)

\* DoHTableParser.extract_domain: the netloc, None when urlparse raises
extract_domain(url) ==
  IF Parsed(url).raises THEN None ELSE Parsed(url).netloc

\* Python truthiness of a str-or-None
Truthy(x) == x # None /\ x # ""

VARIABLES
  pc,                     \* position of the run
  provider_urls,          \* DoHTableParser.provider_urls, the classifier's input
  cache,                  \* GeoIPClassifier.cache: domain -> country or None
  china_providers,        \* GeoIPClassifier.china_providers
  foreign_providers,      \* GeoIPClassifier.foreign_providers
  classification_reasons, \* GeoIPClassifier.classification_reasons
  pidx,                   \* classify: index of the provider being classified
  uidx,                   \* _classify_provider: index into check_urls
  china_count,            \* _classify_provider: china_count
  total_checked,          \* _classify_provider: total_checked
  details,                \* _classify_provider: details
  attempt,                \* _query_geoip_api: attempt
  made,                   \* backend requests sent by the current/last _query_geoip_api call
  api_result,             \* what the last _query_geoip_api call returned
  dns_calls,              \* per domain: calls of socket.gethostbyname
  api_seqs,               \* per domain: calls of _query_geoip_api
  returned,               \* the tuple classify returned
  calls,                  \* the calls of classify that returned before the current one
  files,                  \* the output directory: file name -> what was written
  last_group,             \* the last _group_domains_by_provider call: argument and result
  content,                \* DoHTableParser.content
  lines,                  \* parse: lines
  lineno,                 \* parse: index of the line the loop is at
  current_provider,       \* parse: current_provider
  in_table,               \* parse: in_table
  category_name,          \* generate_dat_file: category_name
  domains,                \* generate_dat_file: domains
  listing,                \* generate_dat_file: list(domains)
  done,                   \* encode_geosite_entry: domains of sorted(domains) encoded so far
  entry_data,             \* encode_geosite_entry: entry_data
  dat_file,               \* the .dat file: the bytes written to it
  value,                  \* write_protobuf_varint: value, as [hi, lo] with value = hi * 2^16 + lo
  result                  \* write_protobuf_varint: the bytes returned

cvars == <<provider_urls, cache, china_providers, foreign_providers,
           classification_reasons, pidx, uidx, china_count, total_checked,
           details, attempt, made, api_result, dns_calls, api_seqs, returned,
           calls>>

gvars == <<files, last_group>>

pvars == <<content, lines, lineno, current_provider, in_table>>

evars == <<category_name, domains, listing, done, entry_data, dat_file>>

nvars == <<value, result>>

vars == <<pc, cvars, gvars, pvars, evars, nvars>>

\* ---------------------------------------------------------- DoHTableParser
\* columns = [col.strip() for col in line.split('|')]
Columns(line) ==
  LET cs == Split(line, "|") IN [i \in DOMAIN cs |-> Strip(cs[i])]

\* re.search(r'\[([^\]]+)\]', s).group(1), None without a match: the leftmost
\* "[" whose next "]" comes after at least one character
LinkText(s) ==
  LET opens == {i \in 1..Len(s) : Char(s, i) = "[" /\ Find(s, "]", i + 1) >= i + 2}
  IN IF opens = {} THEN None
     ELSE SubSeq(s, SetMin(opens) + 1, Find(s, "]", SetMin(opens) + 1) - 1)

\* no cell taken for a section divider
never_divider(who_runs_it) == FALSE

\* _extract_provider_name line 94: a section divider such as **A**
is_divider(who_runs_it) ==
  StartsWith(Strip(who_runs_it), "**") /\ Len(Strip(who_runs_it)) <= 5

\* _extract_provider_name
extract_provider_name(line) ==
  LET columns == Columns(line)
      who_runs_it == columns[2]
  IN IF Len(columns) < 2 THEN None
     ELSE IF is_divider(who_runs_it)
     THEN None
     ELSE IF Strip(who_runs_it) = "" THEN None
     ELSE IF LinkText(who_runs_it) # None THEN Strip(LinkText(who_runs_it))
     ELSE Strip(who_runs_it)

\* the characters r'https://[^\s<>|)]+' stops at
UrlStops == Whitespace \cup {"<", ">", "|", ")"}

\* re.findall(r'https://[^\s<>|)]+', text), from position from on
RECURSIVE FindUrls(_, _)
FindUrls(text, from) ==
  LET i == Find(text, "https://", from)
      stops == {k \in (i + 8)..Len(text) : Char(text, k) \in UrlStops}
      end == IF stops = {} THEN Len(text) ELSE SetMin(stops) - 1
  IN IF i = 0 THEN <<>>
     ELSE IF end < i + 8 THEN FindUrls(text, i + 1)
     ELSE <<SubSeq(text, i, end)>> \o FindUrls(text, end + 1)

\* url.rstrip(')')
RECURSIVE RStripParen(_)
RStripParen(url) ==
  IF url # "" /\ Char(url, Len(url)) = ")"
  THEN RStripParen(SubSeq(url, 1, Len(url) - 1)) ELSE url

doh_patterns == {"/dns-query", "/dns", "/doh", "/query", "dns.", "doh."}

\* _is_doh_url
is_doh_url(url) == \E pattern \in doh_patterns : Contains(Lower(url), pattern)

\* _extract_doh_urls
extract_doh_urls(text) ==
  SelectSeq([i \in DOMAIN FindUrls(text, 1) |-> RStripParen(FindUrls(text, 1)[i])],
            is_doh_url)

\* _parse_table_row: self.provider_urls after the row
parse_table_row(line, provider) ==
  LET columns == Columns(line)
      base_url_col == columns[3]
      urls == extract_doh_urls(base_url_col)
  IN IF Len(columns) < 4 THEN provider_urls
     ELSE IF Strip(base_url_col) # "" /\ Truthy(provider) /\ urls # <<>>
     THEN Put(provider_urls, provider,
              (IF Has(provider_urls, provider) THEN Get(provider_urls, provider)
               ELSE <<>>) \o urls)
     ELSE provider_urls

\* the table's header line
HeaderMarker == "| Who runs it | Base URL |"

\* the lines a text is made of
LinePool ==
  {"| Who runs it | Base URL | Working | Comment |",
   "|---|---|---|---|",
   "| [ACME](https://acme.example) | https://dns.acme.example/dns-query | Yes | |",
   "| Beta | https://doh.beta.example/q | Yes | |",
   "| | https://dns2.acme.example/dns-query | Yes | |",
   "| **B** | | | |",
   "| Delta |",
   "| [ ](https://x.example) | https://dns.x.example/dns-query | Yes | |",
   ""}

Texts == {Join(ls, "\n") : ls \in UNION {[1..n -> LinePool] : n \in 1..MaxLines}}

\* ----------------------------------------------------- classifier inputs
ProviderNames == {"Alpha", "Beta"}
\* the hosts of these URLs
Domains == {extract_domain(u) : u \in ClassifyUrls} \ {None, ""}

UrlLists == UNION {[1..n -> ClassifyUrls] : n \in 1..MaxTotalUrls}

\* what parse hands to classify: a non-empty dict of non-empty URL lists
ProviderMaps ==
  {<<[k |-> p, v |-> u]>> : p \in ProviderNames, u \in UrlLists}
    \cup {<<[k |-> m[1], v |-> m[2]], [k |-> m[3], v |-> m[4]]>> :
            m \in {x \in ProviderNames \X UrlLists \X ProviderNames \X UrlLists :
                     x[1] # x[3] /\ Len(x[2]) + Len(x[4]) <= MaxTotalUrls}}

\* ------------------------------------------------------------ environment
\* socket.gethostbyname: an address, socket.gaierror, or another exception
\* (UnicodeError for an empty or over-long label, as in "dns..example")
DnsOutcomes == {"ok", "gaierror", "error"}
\* requests.get + raise_for_status + json: an exception, or the JSON body
\* (ip-api answers HTTP 200 with status "fail" for an address it cannot place)
ApiException == [raises |-> TRUE, status |-> None, countryCode |-> None]
ApiFail == [raises |-> FALSE, status |-> "fail", countryCode |-> None]
ApiSuccess(c) == [raises |-> FALSE, status |-> "success", countryCode |-> c]
ApiOutcomes == {ApiException, ApiFail} \cup {ApiSuccess(c) : c \in {"CN", "US"}}

\* GeoIPClassifier._extract_country_code
extract_country_code(data) ==
  IF GEOIP_PROVIDER = "ip-api"
  THEN IF data.status = "success" THEN data.countryCode ELSE None
  ELSE data.countryCode

\* ------------------------------------------------- GeoIPClassifier.__init__
ClassifierInit ==
  /\ cache = <<>>
  /\ china_providers = <<>>
  /\ foreign_providers = <<>>
  /\ classification_reasons = <<>>
  /\ pidx = 0 /\ uidx = 0
  /\ china_count = 0 /\ total_checked = 0 /\ details = <<>>
  /\ attempt = 0 /\ made = 0 /\ api_result = NoCall
  /\ dns_calls = [d \in Domains |-> 0]
  /\ api_seqs = [d \in Domains |-> 0]
  /\ returned = <<>>
  /\ calls = 0

\* config.py OUTPUT_FILES
OUTPUT_FILES ==
  [foreign_yaml |-> "doh_foreign.yaml", china_yaml |-> "doh_china.yaml",
   foreign_list |-> "doh_foreign.list", china_list |-> "doh_china.list",
   classification_log |-> "classification_log.txt"]
FileNames == {OUTPUT_FILES[f] : f \in DOMAIN OUTPUT_FILES}

NoFile == [exists |-> FALSE, lines |-> <<>>]
NoGroup == [providers |-> <<>>, provider_domains |-> <<>>, all_domains |-> {}]

\* an output directory with nothing in it
GeneratorInit ==
  /\ files = [f \in FileNames |-> NoFile]
  /\ last_group = NoGroup

\* no integer is being written
VarintIdle == value = [hi |-> 0, lo |-> 0] /\ result = <<>>

\* nothing is being encoded
EncoderIdle ==
  /\ category_name = "" /\ domains = {} /\ listing = <<>>
  /\ done = 0 /\ entry_data = <<>> /\ dat_file = <<>>

\* DoHTableParser(content)
InitParse ==
  /\ pc = "parse"
  /\ content \in Texts
  /\ provider_urls = <<>>
  /\ lines = <<>> /\ lineno = 0 /\ current_provider = None /\ in_table = FALSE
  /\ ClassifierInit
  /\ GeneratorInit
  /\ EncoderIdle
  /\ VarintIdle

\* parse lines 30-32
Parse ==
  /\ pc = "parse"
  /\ lines' = Split(content, "\n")
  /\ current_provider' = None
  /\ in_table' = FALSE
  /\ lineno' = 1
  /\ pc' = "parse_line"
  /\ UNCHANGED <<content, cvars, gvars, evars, nvars>>

\* parse lines 34-56: one line of the text
ParseLine ==
  /\ pc = "parse_line"
  /\ lineno <= Len(lines)
  /\ LET line == lines[lineno] IN
       IF Contains(line, HeaderMarker)
       THEN /\ in_table' = TRUE
            /\ UNCHANGED <<provider_urls, current_provider>>
       ELSE IF in_table /\ (Strip(line) = "" \/ StartsWith(line, "#"))
       THEN /\ in_table' = FALSE
            /\ UNCHANGED <<provider_urls, current_provider>>
       ELSE IF in_table /\ Contains(line, "|---")
       THEN UNCHANGED <<provider_urls, current_provider, in_table>>
       ELSE IF in_table /\ StartsWith(Strip(line), "|")
       THEN /\ provider_urls' = parse_table_row(line, current_provider)
            /\ current_provider' =
                 IF Truthy(extract_provider_name(line))
                 THEN extract_provider_name(line) ELSE current_provider
            /\ UNCHANGED in_table
       ELSE UNCHANGED <<provider_urls, current_provider, in_table>>
  /\ lineno' = lineno + 1
  /\ UNCHANGED <<pc, content, lines, cache, china_providers, foreign_providers,
                 classification_reasons, pidx, uidx, china_count, total_checked,
                 details, attempt, made, api_result, dns_calls, api_seqs,
                 returned, calls, gvars, evars, nvars>>

\* parse line 63: return self.provider_urls
ParseReturn ==
  /\ pc = "parse_line"
  /\ lineno > Len(lines)
  /\ pc' = "parsed"
  /\ UNCHANGED <<cvars, gvars, pvars, evars, nvars>>

NextParse ==
  \/ Parse
  \/ ParseLine
  \/ ParseReturn

SpecParse == InitParse /\ [][NextParse]_vars

\* no text is being parsed
ParserIdle ==
  /\ content = "" /\ lines = <<>> /\ lineno = 0
  /\ current_provider = None /\ in_table = FALSE

InitClassify ==
  /\ pc = "classify"
  /\ provider_urls \in ProviderMaps
  /\ ClassifierInit
  /\ GeneratorInit
  /\ ParserIdle
  /\ EncoderIdle
  /\ VarintIdle

\* ------------------------------------------------ GeoIPClassifier.classify
Provider == provider_urls[pidx].k
Urls == provider_urls[pidx].v

\* the slice forgotten: every URL is sampled
check_all_urls(urls) == urls

\* check_urls = urls[:MAX_URLS_PER_PROVIDER]
check_urls(urls) == Take(urls, MAX_URLS_PER_PROVIDER)

\* classify, up to the loop over the providers
Classify ==
  /\ pc = "classify"
  /\ IF ~ENABLE_GEOIP
     THEN /\ returned' = <<<<>>, provider_urls, <<>>>>
          /\ pc' = "returned"
          /\ UNCHANGED pidx
     ELSE /\ pidx' = 1
          /\ pc' = "provider"
          /\ UNCHANGED returned
  /\ UNCHANGED <<provider_urls, cache, china_providers, foreign_providers,
                 classification_reasons, uidx, china_count, total_checked,
                 details, attempt, made, api_result, dns_calls, api_seqs>>
  /\ UNCHANGED <<calls, gvars, pvars, evars, nvars>>

\* the loop head: the next provider enters _classify_provider, or classify returns
NextProvider ==
  /\ pc = "provider"
  /\ IF pidx <= Len(provider_urls)
     THEN /\ uidx' = 1 /\ china_count' = 0 /\ total_checked' = 0 /\ details' = <<>>
          /\ pc' = "url"
          /\ UNCHANGED returned
     ELSE /\ returned' = <<china_providers, foreign_providers, classification_reasons>>
          /\ pc' = "returned"
          /\ UNCHANGED <<uidx, china_count, total_checked, details>>
  /\ UNCHANGED <<provider_urls, cache, china_providers, foreign_providers,
                 classification_reasons, pidx, attempt, made, api_result,
                 dns_calls, api_seqs>>
  /\ UNCHANGED <<calls, gvars, pvars, evars, nvars>>

\* lines 96-100: one country, or None, comes back from _query_geoip
Count(domain, country) ==
  /\ total_checked' = IF Truthy(country) THEN total_checked + 1 ELSE total_checked
  /\ china_count' = IF Truthy(country) /\ country \in CHINA_REGIONS
                    THEN china_count + 1 ELSE china_count
  /\ details' = IF Truthy(country) /\ country \in CHINA_REGIONS
                THEN Append(details, <<domain, country>>) ELSE details
  /\ uidx' = uidx + 1

\* the cache never consulted
never_in_cache(domain) == FALSE

\* _query_geoip line 123: domain in self.cache
in_cache(domain) == domain \in DOMAIN cache

\* one URL of check_urls: no domain, a cached domain, or a lookup to make
CheckUrl ==
  /\ pc = "url"
  /\ uidx <= Len(check_urls(Urls))
  /\ LET domain == extract_domain(check_urls(Urls)[uidx]) IN
       IF ~Truthy(domain)
       THEN /\ uidx' = uidx + 1
            /\ UNCHANGED <<pc, china_count, total_checked, details>>
       ELSE IF in_cache(domain)
       THEN /\ Count(domain, cache[domain])
            /\ UNCHANGED pc
       ELSE /\ pc' = "dns"
            /\ UNCHANGED <<uidx, china_count, total_checked, details>>
  /\ made' = 0 /\ api_result' = NoCall
  /\ UNCHANGED <<provider_urls, cache, china_providers, foreign_providers,
                 classification_reasons, pidx, attempt, dns_calls, api_seqs,
                 returned>>
  /\ UNCHANGED <<calls, gvars, pvars, evars, nvars>>

CurrentDomain == extract_domain(check_urls(Urls)[uidx])

\* _query_geoip after a cache miss: socket.gethostbyname(domain)
Resolve ==
  /\ pc = "dns"
  /\ dns_calls' = [dns_calls EXCEPT ![CurrentDomain] = @ + 1]
  /\ \E outcome \in DnsOutcomes :
       \/ /\ outcome = "ok"
          /\ pc' = "api"
          /\ attempt' = 0 /\ made' = 0 /\ api_result' = NoCall
          /\ api_seqs' = [api_seqs EXCEPT ![CurrentDomain] = @ + 1]
          /\ UNCHANGED <<cache, uidx, china_count, total_checked, details>>
       \/ /\ outcome = "gaierror"
          /\ cache' = (CurrentDomain :> None) @@ cache
          /\ Count(CurrentDomain, None)
          /\ pc' = "url"
          /\ UNCHANGED <<attempt, made, api_result, api_seqs>>
       \/ /\ outcome = "error"
          /\ pc' = "classify_raised"
          /\ UNCHANGED <<cache, uidx, china_count, total_checked, details,
                         attempt, made, api_result, api_seqs>>
  /\ UNCHANGED <<provider_urls, china_providers, foreign_providers,
                 classification_reasons, pidx, returned>>
  /\ UNCHANGED <<calls, gvars, pvars, evars, nvars>>

\* _query_geoip_api returns country to _query_geoip, which caches and returns it
ApiReturn(country) ==
  /\ api_result' = country
  /\ attempt' = 0
  /\ cache' = (CurrentDomain :> country) @@ cache
  /\ Count(CurrentDomain, country)
  /\ pc' = "url"

\* one pass of the retry loop of _query_geoip_api
ApiAttempt ==
  /\ pc = "api"
  /\ attempt < GEOIP_RETRY
  /\ made' = made + 1
  /\ \E outcome \in ApiOutcomes :
       IF outcome.raises
       THEN IF attempt < GEOIP_RETRY - 1
            THEN /\ attempt' = attempt + 1
                 /\ UNCHANGED <<pc, cache, api_result, uidx, china_count,
                                total_checked, details>>
            ELSE ApiReturn(None)
       ELSE ApiReturn(extract_country_code(outcome))
  /\ UNCHANGED <<provider_urls, china_providers, foreign_providers,
                 classification_reasons, pidx, dns_calls, api_seqs, returned>>
  /\ UNCHANGED <<calls, gvars, pvars, evars, nvars>>

\* ">" written for ">="
ratio_gt_threshold(china, total) ==
  china * CHINA_THRESHOLD_DEN > CHINA_THRESHOLD_NUM * total

\* ratio >= CHINA_THRESHOLD, with ratio = china / total
ratio_ge_threshold(china, total) ==
  china * CHINA_THRESHOLD_DEN >= CHINA_THRESHOLD_NUM * total

\* lines 102-113: the verdict <<is_china, reason>>
verdict(china, total, det) ==
  IF total = 0
  THEN <<FALSE, [t |-> "failed", china |-> 0, total |-> 0, details |-> <<>>]>>
  ELSE IF ratio_ge_threshold(china, total)
  THEN <<TRUE, [t |-> "in", china |-> china, total |-> total, details |-> det]>>
  ELSE <<FALSE, [t |-> "below", china |-> china, total |-> total, details |-> <<>>]>>

\* classify lines 58-59: self.china_providers after the verdict
china_after(is_china, provider, urls) ==
  IF is_china THEN Put(china_providers, provider, urls) ELSE china_providers

\* the "else" lost: every provider is filed as foreign too
foreign_always(is_china, provider, urls) == Put(foreign_providers, provider, urls)

\* classify lines 61-62: self.foreign_providers after the verdict
foreign_after(is_china, provider, urls) ==
  IF is_china THEN foreign_providers ELSE Put(foreign_providers, provider, urls)

\* classify lines 55-62: record the reason and file the provider
FinishProvider ==
  /\ pc = "url"
  /\ uidx > Len(check_urls(Urls))
  /\ LET v == verdict(china_count, total_checked, details) IN
       /\ classification_reasons' = Put(classification_reasons, Provider, v[2])
       /\ china_providers' = china_after(v[1], Provider, Urls)
       /\ foreign_providers' = foreign_after(v[1], Provider, Urls)
  /\ pidx' = pidx + 1
  /\ pc' = "provider"
  /\ uidx' = 0 /\ china_count' = 0 /\ total_checked' = 0 /\ details' = <<>>
  /\ made' = 0 /\ api_result' = NoCall
  /\ UNCHANGED <<provider_urls, cache, attempt, dns_calls, api_seqs, returned>>
  /\ UNCHANGED <<calls, gvars, pvars, evars, nvars>>

\* ----------------------------------- classify again on the same classifier
\* the inputs of repeated calls: one provider with one URL
CallMaps == {<<[k |-> p, v |-> <<u>>]>> : p \in ProviderNames, u \in ClassifyUrls}

\* GeoIPClassifier(); classify(provider_urls)
InitCalls ==
  /\ pc = "classify"
  /\ provider_urls \in CallMaps
  /\ ClassifierInit
  /\ GeneratorInit
  /\ ParserIdle
  /\ EncoderIdle
  /\ VarintIdle

\* classify(provider_urls) once more: __init__ is not run again, so the cache
\* and the three maps of the instance are those the earlier calls left; the
\* tuple an earlier call returned holds these same three dict objects (line 78)
ClassifyAgain ==
  /\ pc = "returned"
  /\ calls < MaxCalls - 1
  /\ calls' = calls + 1
  /\ provider_urls' \in CallMaps
  /\ pc' = "classify"
  /\ UNCHANGED <<cache, china_providers, foreign_providers, classification_reasons,
                 pidx, uidx, china_count, total_checked, details, attempt, made,
                 api_result, dns_calls, api_seqs, returned>>
  /\ UNCHANGED <<gvars, pvars, evars, nvars>>

NextCalls ==
  \/ Classify
  \/ NextProvider
  \/ CheckUrl
  \/ Resolve
  \/ ApiAttempt
  \/ FinishProvider
  \/ ClassifyAgain

SpecCalls == InitCalls /\ [][NextCalls]_vars

\* list(m.keys())
KeyList(m) == [i \in DOMAIN m |-> m[i].k]

\* ------------------------------ RulesetGenerator._group_domains_by_provider
\* the global set never consulted
never_seen(domain, all_domains) == FALSE

\* domain in all_domains
seen(domain, all_domains) == domain \in all_domains

\* lines 197-203: one URL of one provider
GroupUrl(acc, provider, url) ==
  LET domain == extract_domain(url) IN
    IF ~Truthy(domain) \/ seen(domain, acc.all_domains)
    THEN acc
    ELSE [provider_domains |->
            Put(acc.provider_domains, provider,
                Append(IF Has(acc.provider_domains, provider)
                       THEN Get(acc.provider_domains, provider) ELSE <<>>,
                       domain)),
          all_domains |-> acc.all_domains \cup {domain}]

RECURSIVE GroupUrls(_, _, _)
GroupUrls(acc, provider, urls) ==
  IF urls = <<>> THEN acc
  ELSE GroupUrls(GroupUrl(acc, provider, Head(urls)), provider, Tail(urls))

RECURSIVE GroupProviders(_, _)
GroupProviders(acc, providers) ==
  IF providers = <<>> THEN acc
  ELSE GroupProviders(GroupUrls(acc, Head(providers).k, Head(providers).v),
                      Tail(providers))

group_domains_by_provider(providers) ==
  GroupProviders([provider_domains |-> <<>>, all_domains |-> {}], providers)

\* ------------------------------------------------- the rule files' payload
RECURSIVE Concat(_)
Concat(ss) == IF ss = <<>> THEN <<>> ELSE Head(ss) \o Concat(Tail(ss))

\* _generate_yaml lines 107-113: "# provider" then "- domain" lines, both sorted
YamlLines(provider_domains) ==
  LET ps == Sorted(KeyList(provider_domains)) IN
    Concat([i \in DOMAIN ps |->
              LET ds == Sorted(Get(provider_domains, ps[i])) IN
                <<[t |-> "comment", s |-> ps[i]]>>
                  \o [j \in DOMAIN ds |-> [t |-> "domain", s |-> ds[j]]]])

\* _generate_list lines 136-143: "# provider", "DOMAIN-SUFFIX,domain" lines, a blank
ListLines(provider_domains) ==
  LET ps == Sorted(KeyList(provider_domains)) IN
    Concat([i \in DOMAIN ps |->
              LET ds == Sorted(Get(provider_domains, ps[i])) IN
                <<[t |-> "comment", s |-> ps[i]]>>
                  \o [j \in DOMAIN ds |-> [t |-> "domain", s |-> ds[j]]]
                  \o <<[t |-> "blank", s |-> ""]>>])

\* _generate_classification_log lines 164-183: a China entry lists every URL, a
\* foreign entry the first two; the foreign section stops after 20 providers
LogLines(china, foreign, reasons) ==
  LET cs == Sorted(KeyList(china))
      fs == Take(Sorted(KeyList(foreign)), 20)
      reason(p) == IF Has(reasons, p) THEN Get(reasons, p).t ELSE "unknown"
  IN [i \in DOMAIN cs |->
        [t |-> "china", s |-> cs[i], reason |-> reason(cs[i]),
         urls |-> Get(china, cs[i])]]
       \o [i \in DOMAIN fs |->
             [t |-> "foreign", s |-> fs[i], reason |-> reason(fs[i]),
              urls |-> Take(Get(foreign, fs[i]), 2)]]

\* open(filepath, 'w'): the file opens, or OSError is raised
OpenOutcomes == {"ok", "oserror"}

\* _generate_yaml / _generate_list for one partition: nothing is opened when
\* no domain was extracted; an OSError leaves generate_all
WriteRules(here, next, providers, filename, yaml) ==
  /\ pc = here
  /\ LET g == group_domains_by_provider(providers) IN
       /\ last_group' = [providers |-> providers,
                         provider_domains |-> g.provider_domains,
                         all_domains |-> g.all_domains]
       /\ IF g.all_domains = {}
          THEN pc' = next /\ UNCHANGED files
          ELSE \E open \in OpenOutcomes :
                 IF open = "ok"
                 THEN /\ files' = [files EXCEPT ![filename] =
                                     [exists |-> TRUE,
                                      lines |-> IF yaml
                                                THEN YamlLines(g.provider_domains)
                                                ELSE ListLines(g.provider_domains)]]
                      /\ pc' = next
                 ELSE pc' = "generate_raised" /\ UNCHANGED files
  /\ UNCHANGED <<cvars, pvars, evars, nvars>>

\* generate_all lines 42-46
GenerateForeignYaml ==
  WriteRules("returned", "china_yaml", returned[2], OUTPUT_FILES.foreign_yaml, TRUE)
\* lines 48-52
GenerateChinaYaml ==
  WriteRules("china_yaml", "foreign_list", returned[1], OUTPUT_FILES.china_yaml, TRUE)
\* lines 55-59
GenerateForeignList ==
  WriteRules("foreign_list", "china_list", returned[2], OUTPUT_FILES.foreign_list, FALSE)
\* lines 61-65
GenerateChinaList ==
  WriteRules("china_list", "log", returned[1], OUTPUT_FILES.china_list, FALSE)

\* lines 68-72: _generate_classification_log
GenerateLog ==
  /\ pc = "log"
  /\ \E open \in OpenOutcomes :
       IF open = "ok"
       THEN /\ files' = [files EXCEPT ![OUTPUT_FILES.classification_log] =
                           [exists |-> TRUE,
                            lines |-> LogLines(returned[1], returned[2], returned[3])]]
            /\ pc' = "generated"
       ELSE pc' = "generate_raised" /\ UNCHANGED files
  /\ UNCHANGED <<cvars, last_group, pvars, evars, nvars>>

NextClassify ==
  \/ Classify
  \/ NextProvider
  \/ CheckUrl
  \/ Resolve
  \/ ApiAttempt
  \/ FinishProvider
  \/ GenerateForeignYaml
  \/ GenerateChinaYaml
  \/ GenerateForeignList
  \/ GenerateChinaList
  \/ GenerateLog

SpecClassify == InitClassify /\ [][NextClassify]_vars

\* -------------------------------------------------------------------- main
\* what the wiki page can be: empty, without a table, and tables of one to
\* three rows
MainDocs ==
  {"",
   "# DoH servers",
   Join(<<HeaderMarker, "|---|---|---|---|",
          "| Alpha | https://d1.example/dns-query | Yes | |">>, "\n"),
   Join(<<HeaderMarker, "|---|---|---|---|",
          "| Alpha | https://d1.example/dns-query | Yes | |",
          "| | https://d2.example/dns-query | Yes | |">>, "\n"),
   Join(<<HeaderMarker, "|---|---|---|---|",
          "| Alpha | https://d1.example/dns-query | Yes | |",
          "| Beta | https://d2.example/dns-query | Yes | |",
          "| | https://d1.example/dns-query | Yes | |">>, "\n")}

\* main() is entered
InitMain ==
  /\ pc = "fetch"
  /\ provider_urls = <<>>
  /\ ClassifierInit
  /\ GeneratorInit
  /\ ParserIdle
  /\ EncoderIdle
  /\ VarintIdle

\* main lines 23-28: WikiFetcher.fetch returns the page, or None after any
\* exception; no content is exit(1)
Fetch ==
  /\ pc = "fetch"
  /\ \E wiki_content \in MainDocs \cup {None} :
       IF ~Truthy(wiki_content)
       THEN pc' = "exit_1" /\ UNCHANGED content
       ELSE content' = wiki_content /\ pc' = "parse"
  /\ UNCHANGED <<lines, lineno, current_provider, in_table, cvars, gvars, evars, nvars>>

\* main lines 35-42: an empty map is exit(1), any other goes to classify
CheckProviders ==
  /\ pc = "parsed"
  /\ pc' = IF provider_urls = <<>> THEN "exit_1" ELSE "classify"
  /\ UNCHANGED <<cvars, gvars, pvars, evars, nvars>>

NextMain ==
  \/ Fetch
  \/ Parse
  \/ ParseLine
  \/ ParseReturn
  \/ CheckProviders
  \/ Classify
  \/ NextProvider
  \/ CheckUrl
  \/ Resolve
  \/ ApiAttempt
  \/ FinishProvider
  \/ GenerateForeignYaml
  \/ GenerateChinaYaml
  \/ GenerateForeignList
  \/ GenerateChinaList
  \/ GenerateLog

SpecMain == InitMain /\ [][NextMain]_vars

\* -------------------------------------------------------- GeositeGenerator
\* An integer of up to 32 bits is kept as two halves of 16 bits, [hi, lo] with
\* v = hi * 2^16 + lo, so that every value of [0, 2^32) can be written down.
\* the high half forgotten by the loop test
more_low_only(v) == v.lo > 127

\* write_protobuf_varint line 56: value > 0x7F
more(v) == v.hi > 0 \/ v.lo > 127

\* write_protobuf_varint line 58: value >>= 7
shift7(v) == [hi |-> v.hi \div 128, lo |-> (v.lo \div 128) + (v.hi % 128) * 512]

\* write_protobuf_varint lines 55-60: seven bits a byte, low group first,
\* 0x80 on all but the last
RECURSIVE varint_bytes(_)
varint_bytes(v) ==
  IF more(v)
  THEN <<(v.lo % 128) + 128>> \o varint_bytes(shift7(v))
  ELSE <<v.lo % 128>>

\* write_protobuf_varint of an integer below 2^31
write_protobuf_varint(n) == varint_bytes([hi |-> n \div 65536, lo |-> n % 65536])

\* value.encode('utf-8') of an ASCII string: one byte a character
Utf8(text) == [i \in 1..Len(text) |-> Ord(Char(text, i))]

\* write_protobuf_string: tag (field_number << 3) | 2, length, data
write_protobuf_string(field_number, text) ==
  write_protobuf_varint(field_number * 8 + 2)
    \o write_protobuf_varint(Len(Utf8(text)))
    \o Utf8(text)

\* encode_domain lines 79-91: domain_type
domain_type(domain) ==
  IF StartsWith(domain, "full:") THEN 3
  ELSE IF StartsWith(domain, "regexp:") THEN 1
  ELSE IF StartsWith(domain, "keyword:") THEN 0
  ELSE 0

\* encode_domain lines 79-91: domain_value
domain_value(domain) ==
  IF StartsWith(domain, "full:") THEN SubSeq(domain, 6, Len(domain))
  ELSE IF StartsWith(domain, "regexp:") THEN SubSeq(domain, 8, Len(domain))
  ELSE IF StartsWith(domain, "keyword:") THEN SubSeq(domain, 9, Len(domain))
  ELSE domain

\* encode_domain
encode_domain(domain, field_number) ==
  LET domain_message ==
        write_protobuf_varint(1 * 8 + 0)
          \o write_protobuf_varint(domain_type(domain))
          \o write_protobuf_string(2, domain_value(domain))
  IN write_protobuf_varint(field_number * 8 + 2)
       \o write_protobuf_varint(Len(domain_message))
       \o domain_message

\* the domain strings a category is made of
DomainPool ==
  {"d1.example", "d2.example", "full:d1.example", "regexp:^d1$", "keyword:d1",
   "full:", "fulld1"}

\* every order list(domains) can have
Listings(ds) ==
  {l \in [1..Cardinality(ds) -> ds] : \A i, j \in DOMAIN l : l[i] = l[j] => i = j}

\* GeositeGenerator(); generate_dat_file(category_name, domains, output_file)
InitEncode ==
  /\ pc = "dat"
  /\ category_name \in {"doh-foreign", "doh-china"}
  /\ domains \in {ds \in SUBSET DomainPool : Cardinality(ds) <= MaxDomains}
  /\ listing = <<>> /\ done = 0 /\ entry_data = <<>> /\ dat_file = <<>>
  /\ provider_urls = <<>>
  /\ ClassifierInit
  /\ GeneratorInit
  /\ ParserIdle
  /\ VarintIdle

\* generate_dat_file lines 125-135, encode_geosite_entry lines 112-115
EncodeEntry ==
  /\ pc = "dat"
  /\ IF domains = {}
     THEN /\ pc' = "dat_skipped"
          /\ UNCHANGED <<listing, entry_data>>
     ELSE /\ listing' \in Listings(domains)
          /\ entry_data' = write_protobuf_string(1, category_name)
          /\ pc' = "entry"
  /\ UNCHANGED <<category_name, domains, done, dat_file, cvars, gvars, pvars, nvars>>

\* the order of the listing kept: no sort
listed_domains(ds) == ds

\* encode_geosite_entry line 118: sorted(domains)
sorted_domains(ds) == Sorted(ds)

\* encode_geosite_entry lines 118-119: the next domain of sorted(domains)
EncodeDomain ==
  /\ pc = "entry"
  /\ done < Len(listing)
  /\ entry_data' = entry_data \o encode_domain(sorted_domains(listing)[done + 1], 2)
  /\ done' = done + 1
  /\ UNCHANGED <<pc, category_name, domains, listing, dat_file, cvars, gvars, pvars, nvars>>

\* generate_dat_file lines 138-163: the GeoSiteList wrapper and the write; an
\* exception is caught and printed
WriteDat ==
  /\ pc = "entry"
  /\ done = Len(listing)
  /\ \E open \in OpenOutcomes :
       IF open = "ok"
       THEN /\ dat_file' = write_protobuf_varint(1 * 8 + 2)
                             \o write_protobuf_varint(Len(entry_data))
                             \o entry_data
            /\ pc' = "dat_written"
       ELSE /\ pc' = "dat_failed"
            /\ UNCHANGED dat_file
  /\ UNCHANGED <<category_name, domains, listing, done, entry_data, cvars, gvars, pvars, nvars>>

NextEncode ==
  \/ EncodeEntry
  \/ EncodeDomain
  \/ WriteDat

SpecEncode == InitEncode /\ [][NextEncode]_vars

\* ------------------------------------------------ write_protobuf_varint alone
\* the integers written: around every seven-bit boundary and both ends of [0, 2^32)
VarintHighs == {0, 1, 31, 32, 33, 4095, 4096, 65535}
VarintLows == (0..MaxLow) \cup {127, 128, 16383, 16384, 65535}

InitVarint ==
  /\ pc = "varint"
  /\ value \in [hi : VarintHighs, lo : VarintLows]
  /\ result = <<>>
  /\ provider_urls = <<>>
  /\ ClassifierInit
  /\ GeneratorInit
  /\ ParserIdle
  /\ EncoderIdle

\* write_protobuf_varint(value)
WriteVarint ==
  /\ pc = "varint"
  /\ result' = varint_bytes(value)
  /\ pc' = "varint_done"
  /\ UNCHANGED <<value, cvars, gvars, pvars, evars>>

NextVarint == WriteVarint

SpecVarint == InitVarint /\ [][NextVarint]_vars

\* =========================================================== the claims
Min(a, b) == IF a < b THEN a ELSE b

\* in_table when the loop of parse reaches line i
RECURSIVE InTableAt(_, _)
InTableAt(ls, i) ==
  IF i = 1 THEN FALSE
  ELSE IF Contains(ls[i - 1], HeaderMarker) THEN TRUE
  ELSE IF InTableAt(ls, i - 1) /\ (Strip(ls[i - 1]) = "" \/ StartsWith(ls[i - 1], "#"))
  THEN FALSE
  ELSE InTableAt(ls, i - 1)

\* line i is a data row of the table, with its four cells
DataRow(ls, i) ==
  /\ ~Contains(ls[i], HeaderMarker)
  /\ InTableAt(ls, i)
  /\ Strip(ls[i]) # "" /\ ~StartsWith(ls[i], "#")
  /\ ~Contains(ls[i], "|---")
  /\ StartsWith(Strip(ls[i]), "|")
  /\ Len(Columns(ls[i])) >= 4

\* xs is a run of consecutive elements of ys
IsRunOf(xs, ys) ==
  \E k \in 0..(Len(ys) - Len(xs)) : SubSeq(ys, k + 1, k + Len(xs)) = xs

Scenario1 ==
  Join(<<"| Who runs it | Base URL | Working | Comment |",
         "|---|---|---|---|",
         "| [ACME](https://acme.example) | https://dns.acme.example/dns-query | Yes | |">>,
       "\n")

\* C1: when parse returns, the URLs of every data row that names a provider
\* and holds a DoH URL are, in order, in the list of the provider that row
\* names; the text of scenario 1 parses to exactly {ACME: [its URL]}.
C1_SameRowProvider ==
  pc = "parsed" =>
    /\ \A i \in DOMAIN lines :
         (/\ DataRow(lines, i)
          /\ Truthy(extract_provider_name(lines[i]))
          /\ extract_doh_urls(Columns(lines[i])[3]) # <<>>)
           => /\ Has(provider_urls, extract_provider_name(lines[i]))
              /\ IsRunOf(extract_doh_urls(Columns(lines[i])[3]),
                         Get(provider_urls, extract_provider_name(lines[i])))
    /\ content = Scenario1 =>
         provider_urls =
           <<[k |-> "ACME", v |-> <<"https://dns.acme.example/dns-query">>]>>

\* the URL's domain was extracted and its lookup ended with a country code
Counted(url) ==
  /\ Truthy(extract_domain(url))
  /\ extract_domain(url) \in DOMAIN cache
  /\ Truthy(cache[extract_domain(url)])
InRegionUrl(url) == Counted(url) /\ cache[extract_domain(url)] \in CHINA_REGIONS

\* C2: when classify returns, every provider of the input is a key of exactly
\* one of the two returned maps, with its whole input URL list, and every
\* provider of either map has a reason.
C2_PartitionTotality ==
  returned # <<>> =>
    /\ \A i \in DOMAIN provider_urls :
         LET p == provider_urls[i].k
             u == provider_urls[i].v
         IN /\ Has(returned[1], p) # Has(returned[2], p)
            /\ Has(returned[1], p) => Get(returned[1], p) = u
            /\ Has(returned[2], p) => Get(returned[2], p) = u
    /\ Keys(returned[1]) \cup Keys(returned[2]) \subseteq Keys(returned[3])
    /\ Keys(returned[1]) \cup Keys(returned[2]) \subseteq Keys(provider_urls)

\* classify has returned an input of two providers, one in each partition
C2_Witness ==
  /\ returned # <<>>
  /\ Len(provider_urls) = 2
  /\ Len(returned[1]) = 1 /\ Len(returned[2]) = 1

\* C3: the step that files a provider files it in-region exactly when
\* total_checked > 0 and china_count / total_checked >= CHINA_THRESHOLD; with
\* total_checked = 0 it is filed out-of-region with the "lookup failed" reason.
C3_Verdict ==
  [][(pc = "url" /\ pc' = "provider") =>
       /\ Has(china_providers', Provider) <=>
            (total_checked > 0 /\
             china_count * CHINA_THRESHOLD_DEN >= CHINA_THRESHOLD_NUM * total_checked)
       /\ Has(foreign_providers', Provider) <=> ~Has(china_providers', Provider)
       /\ total_checked = 0 =>
            /\ Has(foreign_providers', Provider)
            /\ Get(classification_reasons', Provider).t = "failed"
       /\ total_checked > 0 =>
            /\ Get(classification_reasons', Provider).t \in {"in", "below"}
            /\ Get(classification_reasons', Provider).china = china_count
            /\ Get(classification_reasons', Provider).total = total_checked]_vars

\* a provider whose ratio is exactly the threshold (1 of 2) is in-region
C3_Witness ==
  \E p \in Keys(china_providers) :
    /\ Get(classification_reasons, p).total = 2
    /\ Get(classification_reasons, p).china = 1

\* C4: while a provider is classified, only positions 1..MAX_URLS_PER_PROVIDER
\* of its list are visited, in order; total_checked counts the visited URLs
\* with a domain and a country, china_count those of them in the region; and
\* the recorded reason of a classified provider carries the same counts.
C4_SampleAccounting ==
  /\ pc \in {"url", "dns", "api"} =>
       /\ 1 <= uidx /\ uidx <= Min(Len(Urls), MAX_URLS_PER_PROVIDER) + 1
       /\ pc \in {"dns", "api"} => uidx <= Min(Len(Urls), MAX_URLS_PER_PROVIDER)
       /\ total_checked = Cardinality({i \in 1..(uidx - 1) : Counted(Urls[i])})
       /\ china_count = Cardinality({i \in 1..(uidx - 1) : InRegionUrl(Urls[i])})
       /\ 0 <= china_count /\ china_count <= total_checked
       /\ total_checked <= MAX_URLS_PER_PROVIDER
  /\ \A d \in Domains :
       dns_calls[d] > 0 =>
         \E i \in DOMAIN provider_urls :
           \E j \in 1..Min(Len(provider_urls[i].v), MAX_URLS_PER_PROVIDER) :
             extract_domain(provider_urls[i].v[j]) = d
  /\ \A i \in DOMAIN provider_urls :
       Has(classification_reasons, provider_urls[i].k) =>
         LET u == provider_urls[i].v
             r == Get(classification_reasons, provider_urls[i].k)
             sample == 1..Min(Len(u), MAX_URLS_PER_PROVIDER)
         IN /\ r.total = Cardinality({j \in sample : Counted(u[j])})
            /\ r.china = IF r.t = "below" \/ r.t = "in"
                         THEN Cardinality({j \in sample : InRegionUrl(u[j])})
                         ELSE 0
            /\ r.total <= MAX_URLS_PER_PROVIDER

\* a provider with more URLs than the sample was classified on a full sample,
\* and its URL past the sample names a domain that was never resolved
C4_Witness ==
  \E i \in DOMAIN provider_urls :
    /\ Has(classification_reasons, provider_urls[i].k)
    /\ Len(provider_urls[i].v) > MAX_URLS_PER_PROVIDER
    /\ Get(classification_reasons, provider_urls[i].k).total = MAX_URLS_PER_PROVIDER
    /\ \E d \in Domains :
         /\ extract_domain(provider_urls[i].v[MAX_URLS_PER_PROVIDER + 1]) = d
         /\ dns_calls[d] = 0

\* C5: each domain is resolved at most once and starts at most one backend
\* query sequence, and a cache entry, once written, stays as it is.
C5_CacheStable ==
  /\ [](\A d \in Domains : dns_calls[d] <= 1 /\ api_seqs[d] <= 1)
  /\ [][\A d \in DOMAIN cache : d \in DOMAIN cache' /\ cache'[d] = cache[d]]_vars
  /\ [][(pc = "url" /\ uidx <= Len(check_urls(Urls)) /\ CurrentDomain \in DOMAIN cache)
          => (pc' = "url" /\ dns_calls' = dns_calls /\ api_seqs' = api_seqs)]_vars

\* the second provider's first URL names a domain the first provider's lookup
\* cached as "no country"; it has been answered, and the domain was resolved once
C5_Witness ==
  /\ pc = "url" /\ pidx = 2 /\ uidx = 2
  /\ \E d \in Domains :
       /\ extract_domain(Urls[1]) = d
       /\ d \in DOMAIN cache /\ cache[d] = None
       /\ dns_calls[d] = 1
       /\ \E j \in DOMAIN provider_urls[1].v : extract_domain(provider_urls[1].v[j]) = d

\* C6: a backend lookup sends at most GEOIP_RETRY requests and returns absent
\* only after GEOIP_RETRY requests that gave no country code.
C6_RetryPolicy ==
  /\ made <= GEOIP_RETRY
  /\ api_result = None => made = GEOIP_RETRY

\* C7: no DNS or backend failure escapes classify.
C7_NoFatalLookup == pc # "classify_raised"

\* the domains a rule file lists, one per "domain" line
DomainLines(f) == SelectSeq(files[f].lines, LAMBDA l : l.t = "domain")
DomainsOf(f) == {DomainLines(f)[i].s : i \in DOMAIN DomainLines(f)}
OncePerFile(f) ==
  \A i, j \in DOMAIN DomainLines(f) :
    DomainLines(f)[i].s = DomainLines(f)[j].s => i = j

\* C8: a domain is in at most one partition's rule file, and once in it.
C8_CrossPartitionUnique ==
  /\ DomainsOf(OUTPUT_FILES.foreign_yaml) \cap DomainsOf(OUTPUT_FILES.china_yaml) = {}
  /\ DomainsOf(OUTPUT_FILES.foreign_list) \cap DomainsOf(OUTPUT_FILES.china_list) = {}
  /\ \A f \in FileNames \ {OUTPUT_FILES.classification_log} : OncePerFile(f)

\* the domains of a provider's URLs
UrlDomains(urls) ==
  {extract_domain(urls[j]) : j \in {x \in DOMAIN urls : Truthy(extract_domain(urls[x]))}}
\* how often x occurs in the list xs
Occurrences(xs, x) == Cardinality({j \in DOMAIN xs : xs[j] = x})

\* C9: in the result of one _group_domains_by_provider call, every extracted
\* domain is in exactly one provider's list, once, and that provider is the
\* first of the argument, in iteration order, with a URL of that domain; the
\* combined set is the union of the lists; when the argument is in
\* alphabetical order the keeper is the alphabetically first such provider.
C9_FirstOccurrence ==
  LET ps == last_group.providers
      pd == last_group.provider_domains
      extracted == UNION {UrlDomains(ps[i].v) : i \in DOMAIN ps}
      first(d) == CHOOSE i \in DOMAIN ps :
                    /\ d \in UrlDomains(ps[i].v)
                    /\ \A j \in DOMAIN ps : d \in UrlDomains(ps[j].v) => i <= j
      alphabetical == \A i, j \in DOMAIN ps : i < j => StrLess(ps[i].k, ps[j].k)
  IN /\ \A d \in extracted :
          /\ Has(pd, ps[first(d)].k)
          /\ \A q \in Keys(pd) :
               Occurrences(Get(pd, q), d) = IF q = ps[first(d)].k THEN 1 ELSE 0
          /\ alphabetical =>
               \A j \in DOMAIN ps :
                 d \in UrlDomains(ps[j].v) /\ ps[j].k # ps[first(d)].k
                   => StrLess(ps[first(d)].k, ps[j].k)
     /\ last_group.all_domains = extracted
     /\ last_group.all_domains =
          UNION {{Get(pd, q)[j] : j \in DOMAIN Get(pd, q)} : q \in Keys(pd)}
     /\ Keys(pd) \subseteq Keys(ps)
     /\ \A q \in Keys(pd) : Get(pd, q) # <<>>

\* two providers given in alphabetical order share a domain, and the call has
\* left it with the first alone
C9_Witness ==
  LET ps == last_group.providers
      pd == last_group.provider_domains
  IN /\ Len(ps) = 2
     /\ StrLess(ps[1].k, ps[2].k)
     /\ \E d \in Domains :
          /\ d \in UrlDomains(ps[1].v) /\ d \in UrlDomains(ps[2].v)
          /\ Occurrences(Get(pd, ps[1].k), d) = 1
          /\ ~Has(pd, ps[2].k)


\* a varint read from bytes at position pos: its value and the position after it
RECURSIVE ReadVarint(_, _)
ReadVarint(bytes, pos) ==
  IF bytes[pos] < 128 THEN [value |-> bytes[pos], next |-> pos + 1]
  ELSE LET rest == ReadVarint(bytes, pos + 1)
       IN [value |-> (bytes[pos] - 128) + 128 * rest.value, next |-> rest.next]

\* a length-delimited field read at pos: its tag, its payload, the position after it
ReadField(bytes, pos) ==
  LET tag == ReadVarint(bytes, pos)
      len == ReadVarint(bytes, tag.next)
  IN [tag |-> tag.value,
      payload |-> SubSeq(bytes, len.next, len.next + len.value - 1),
      next |-> len.next + len.value]

\* the Domain message in payload: field 1 a varint, field 2 a string
ReadDomain(payload) ==
  [type |-> ReadVarint(payload, 2).value,
   type_tag |-> payload[1],
   value |-> ReadField(payload, ReadVarint(payload, 2).next).payload,
   value_tag |-> payload[ReadVarint(payload, 2).next]]

\* the Domain messages that follow position pos of an entry
RECURSIVE ReadDomains(_, _)
ReadDomains(bytes, pos) ==
  IF pos > Len(bytes) THEN <<>>
  ELSE <<ReadDomain(ReadField(bytes, pos).payload)>>
         \o ReadDomains(bytes, ReadField(bytes, pos).next)

\* the Domain messages of entry_data, after its tag field
EntryDomains == ReadDomains(entry_data, ReadField(entry_data, 1).next)

\* the class the prefix of a domain string names
ClassOf(d) ==
  IF StartsWith(d, "full:") THEN "Full"
  ELSE IF StartsWith(d, "regexp:") THEN "Regexp"
  ELSE IF StartsWith(d, "keyword:") THEN "Keyword"
  ELSE "Plain"
\* the domain string without that prefix
Unprefixed(d) ==
  IF ClassOf(d) = "Full" THEN SubSeq(d, Len("full:") + 1, Len(d))
  ELSE IF ClassOf(d) = "Regexp" THEN SubSeq(d, Len("regexp:") + 1, Len(d))
  ELSE IF ClassOf(d) = "Keyword" THEN SubSeq(d, Len("keyword:") + 1, Len(d))
  ELSE d

\* C10: in the bytes of an entry, every domain's inner field 1 is a type that
\* tells its class (two domains have the same type exactly when they have the
\* same class, so the four classes have four types) and its inner field 2 is
\* the domain string without the prefix.
C10_DomainTypes ==
  pc = "entry" =>
    /\ Len(EntryDomains) = done
    /\ \A i \in 1..done :
         /\ EntryDomains[i].type_tag = 8
         /\ EntryDomains[i].value_tag = 18
         /\ EntryDomains[i].value = Utf8(Unprefixed(Sorted(listing)[i]))
    /\ \A i, j \in 1..done :
         (EntryDomains[i].type = EntryDomains[j].type)
           <=> (ClassOf(Sorted(listing)[i]) = ClassOf(Sorted(listing)[j]))

\* the strings of ds in ascending order of code points, whatever the listing
Ascending(ds) ==
  CHOOSE l \in Listings(ds) : \A i \in 1..(Len(l) - 1) : StrLess(l[i], l[i + 1])

\* the entry of a category after its first n domains in ascending order
EntryOf(tag, ds, n) ==
  write_protobuf_string(1, tag)
    \o Concat([i \in 1..n |-> encode_domain(Ascending(ds)[i], 2)])

\* C11: the bytes of an entry, and of the file written from it, are those of
\* the category tag followed by the domains' fields in ascending order of the
\* domain strings, prefix included: they depend on the tag and the set of
\* domains only, not on the order the set was listed in.
C11_OrderIndependent ==
  /\ pc \in {"entry", "dat_written", "dat_failed"} =>
       entry_data = EntryOf(category_name, domains, done)
  /\ pc = "dat_written" =>
       dat_file = <<10, Len(EntryOf(category_name, domains, Cardinality(domains)))>>
                    \o EntryOf(category_name, domains, Cardinality(domains))

\* a file was written from a set of two domains listed in descending order
C11_Witness ==
  /\ pc = "dat_written"
  /\ Len(listing) = 2
  /\ StrLess(listing[2], listing[1])
  /\ dat_file # <<>>

\* the standard decoding of a varint, the sum of (byte & 0x7F) << 7i, kept in
\* two halves of 16 bits like the input
RECURSIVE DecodeVarint(_)
DecodeVarint(bytes) ==
  IF bytes = <<>> THEN [hi |-> 0, lo |-> 0]
  ELSE LET rest == DecodeVarint(Tail(bytes))
           low == rest.lo * 128 + (Head(bytes) % 128)
       IN [hi |-> rest.hi * 128 + (low \div 65536), lo |-> low % 65536]

\* C12: the bytes written for an integer of [0, 2^32) are at least one, each
\* a byte, the continuation bit 0x80 is set on all but the last and clear on
\* the last, and the standard decoding gives the integer back.
C12_VarintRoundTrip ==
  pc = "varint_done" =>
    /\ Len(result) >= 1
    /\ \A i \in 1..Len(result) :
         /\ result[i] \in 0..255
         /\ (result[i] >= 128) <=> (i < Len(result))
    /\ DecodeVarint(result) = value

\* 2^32 - 1 was written, in five bytes
C12_Witness ==
  /\ pc = "varint_done"
  /\ value = [hi |-> 65535, lo |-> 65535]
  /\ result = <<255, 255, 255, 255, 15>>

\* C13: a write that fails never keeps a later output file from being
\* attempted: generate_all is left by the failure of a write only when that
\* write is the last one, the classification log's.
C13_WriteIsolation == [][pc' = "generate_raised" => pc = "log"]_vars

\* line i is a row of the table: inside it, starting with "|", neither the
\* header nor a separator
TableRow(ls, i) ==
  /\ ~Contains(ls[i], HeaderMarker)
  /\ InTableAt(ls, i)
  /\ Strip(ls[i]) # "" /\ ~StartsWith(ls[i], "#")
  /\ ~Contains(ls[i], "|---")
  /\ StartsWith(Strip(ls[i]), "|")

\* the trimmed 'Who runs it' cell of a row
WhoCell(line) == Strip(Split(line, "|")[2])

\* the cell names a provider: it is neither empty nor a section divider
NamesProvider(cell) == cell # "" /\ ~(StartsWith(cell, "**") /\ Len(cell) <= 5)

\* the name in such a cell: the text of its markdown link, or the cell itself
NameIn(cell) == IF LinkText(cell) # None THEN Strip(LinkText(cell)) ELSE cell

\* the rows before line i that name a provider
NamingRows(ls, i) ==
  {j \in 1..(i - 1) :
     TableRow(ls, j) /\ NamesProvider(WhoCell(ls[j])) /\ NameIn(WhoCell(ls[j])) # ""}

\* the provider last named before line i, None when there is none
LastNamed(ls, i) ==
  IF NamingRows(ls, i) = {} THEN None
  ELSE NameIn(WhoCell(ls[SetMax(NamingRows(ls, i))]))

\* the DoH URLs of a row of four cells or more, none for a shorter row
RowUrls(line) ==
  IF Len(Split(line, "|")) < 4 THEN <<>>
  ELSE extract_doh_urls(Strip(Split(line, "|")[3]))

\* the map with urls added to the list of provider
Appended(m, provider, urls) ==
  IF provider = None \/ urls = <<>> THEN m
  ELSE IF Has(m, provider) THEN Put(m, provider, Get(m, provider) \o urls)
  ELSE Put(m, provider, urls)

\* the parser is about to process a row whose provider cell is empty or a divider
AtContinuationRow ==
  /\ pc = "parse_line"
  /\ lineno <= Len(lines)
  /\ TableRow(lines, lineno)
  /\ ~NamesProvider(WhoCell(lines[lineno]))

\* C14: every key of the map is a non-empty name taken from the 'Who runs it'
\* cell of a row whose cell is neither empty nor a section divider; a row with
\* an empty or divider cell leaves the current provider as it is, and its
\* URLs go to the list of the provider last named before it.
C14_ProviderNames ==
  /\ [](\A key \in Keys(provider_urls) :
          /\ key # "" /\ key # None
          /\ \E i \in DOMAIN lines :
               /\ TableRow(lines, i)
               /\ NamesProvider(WhoCell(lines[i]))
               /\ NameIn(WhoCell(lines[i])) = key)
  /\ [][AtContinuationRow =>
          /\ current_provider' = current_provider
          /\ provider_urls' =
               Appended(provider_urls, LastNamed(lines, lineno), RowUrls(lines[lineno]))]_vars

\* parse returned a map in which the provider last named before a row with an
\* empty cell has that row's URL
C14_Witness ==
  /\ pc = "parsed"
  /\ \E i \in DOMAIN lines :
       /\ TableRow(lines, i)
       /\ WhoCell(lines[i]) = ""
       /\ RowUrls(lines[i]) # <<>>
       /\ Has(provider_urls, LastNamed(lines, i))
       /\ IsRunOf(RowUrls(lines[i]), Get(provider_urls, LastNamed(lines, i)))
  /\ \E i \in DOMAIN lines : TableRow(lines, i) /\ WhoCell(lines[i]) = "**B**"

\* C17: a row of the table that splits on "|" into fewer than four cells is
\* ignored: the step over it changes neither the map nor the current provider.
C17_MalformedIgnored ==
  [][(/\ pc = "parse_line"
      /\ lineno <= Len(lines)
      /\ TableRow(lines, lineno)
      /\ Len(Split(lines[lineno], "|")) < 4)
       => /\ provider_urls' = provider_urls
          /\ current_provider' = current_provider]_vars

\* the three dicts of the classifier, which are the objects every call returns
Instance == <<china_providers, foreign_providers, classification_reasons>>

\* C16: while a later call of classify runs, the three maps an earlier call
\* returned are as they were returned; and what a call returns holds exactly
\* the providers of its own input, each in one partition only.
C16_ResultsImmutable ==
  /\ (calls >= 1 /\ pc # "returned") => Instance = returned
  /\ pc = "returned" =>
       /\ Keys(returned[1]) \cup Keys(returned[2]) = Keys(provider_urls)
       /\ Keys(returned[1]) \cap Keys(returned[2]) = {}
       /\ Keys(returned[3]) = Keys(provider_urls)

\* no DNS or backend lookup was made and no output file exists
NothingDone ==
  /\ \A d \in Domains : dns_calls[d] = 0 /\ api_seqs[d] = 0
  /\ cache = <<>>
  /\ \A f \in FileNames : ~files[f].exists

\* the positions of main inside classify and inside generate_all
InClassify == {"classify", "provider", "url", "dns", "api", "classify_raised"}
InGenerate ==
  {"returned", "china_yaml", "foreign_list", "china_list", "log", "generated",
   "generate_raised"}

\* the phases come in order: classify works on the map a finished parse of the
\* fetched page returned, and files are written only from what classify returned
PhaseOrder ==
  /\ pc \in InClassify \cup InGenerate =>
       /\ Truthy(content) /\ lines = Split(content, "\n") /\ lineno > Len(lines)
       /\ provider_urls # <<>>
  /\ pc \in InGenerate => returned # <<>>
  /\ (\E f \in FileNames : files[f].exists) => pc \in InGenerate
  /\ pc \in {"fetch", "parse", "parse_line", "parsed"} => NothingDone

\* the run halts with exit(1) only for no page or no provider, and then
\* nothing was looked up or written
FailureExit ==
  pc = "exit_1" =>
    /\ NothingDone
    /\ ~Truthy(content) \/ (lineno > Len(lines) /\ provider_urls = <<>>)

\* C15: fetch, parse, classify and generate run in this order; no page and no
\* parsed provider end the run with exit(1) before any lookup or file; nothing
\* else ends the run, so classify and generate_all are never left by an exception.
C15_PhaseOrder ==
  /\ PhaseOrder
  /\ FailureExit
  /\ pc \notin {"classify_raised", "generate_raised"}

====
